---- MODULE Spec2Model ----
(***************************************************************************)
(* A model of the file-name index of Yoimiya-Naganohara/search:            *)
(*   src/src/data.rs           the trie (Node, PathTree)                    *)
(*   src/src/search_engine.rs  Search: search, save_index, load_index,      *)
(*                             set_part, generate_index                     *)
(* Strings are sequences of one-character strings; a PathBuf is a string.   *)
(***************************************************************************)
EXTENDS Integers, Sequences, FiniteSets, TLC

(***************************************************************************)
(* Bounds of the model.                                                    *)
(***************************************************************************)
MaxKeyLen == 2
MaxEntries == 2
MaxFiles == 2
MaxQueue == 2

\* The paths the callers of insert hand in.
Values == {<<"p1">>, <<"p2">>}

\* The strings of at most MaxKeyLen characters over an alphabet.
Strings(alphabet) == UNION {[1..n -> alphabet] : n \in 0..MaxKeyLen}

\* Keys of the trie operations: an ASCII letter and a character whose UTF-8
\* encoding takes two bytes.
KeySet == Strings({"a", "é"})

\* Keys and query texts of the search operations: an ASCII letter and the
\* wildcard marker; a query is a key, or a key followed by the marker.
QueryKeys == Strings({"a", "?"})
QuerySet == QueryKeys \cup {k \o <<"?">> : k \in QueryKeys}

\* What is inserted before a save: keys in the buckets of a letter in both
\* its cases, one of them nested, one holding two different paths.
StoreInputs ==
  {<<(<<"a">>), (<<"p1">>)>>, <<(<<"a">>), (<<"p2">>)>>,
   <<(<<"A">>), (<<"p1">>)>>, <<(<<"a", "a">>), (<<"p1">>)>>}

\* The keys a loaded shard is asked for.
StoreKeys == Strings({"a", "A"})

\* The sections load_index is called with.
Buckets == {"a", "A"}

\* The scopes set_part selects (drive letters).
Parts == {"C", "D"}

\* Keys inserted into and deleted from an index that is also crawled: file
\* names and extension keys of the tree below.
IndexKeys == {<<>>, <<"a">>, <<".">>, <<".", "a">>, <<"a", ".", "a">>}

\* The directory tree that is crawled: the root directory "r/" and its
\* subdirectory "r/d/", holding at most MaxFiles files with these names.
\* A tree says which files there are, which directories can be read, and
\* which directories hold an entry the walk cannot read.
Dirs == {"r/", "r/d/"}
FileNames == {<<"a">>, <<"a", ".", "a">>, <<".", "a">>}
FileUniverse == [dir : Dirs, name : FileNames]
Trees ==
  {[files |-> F, readable |-> Dirs, broken |-> {}] :
     F \in {G \in SUBSET FileUniverse : Cardinality(G) <= MaxFiles}}
  \cup {[files |-> {[dir |-> "r/", name |-> <<"a">>],
                    [dir |-> "r/d/", name |-> <<"a", ".", "a">>]},
         readable |-> R, broken |-> B] :
          R \in {{"r/"}, {}}, B \in {{}, {"r/"}}}
  \cup {[files |-> {[dir |-> "r/", name |-> <<"a">>]},
         readable |-> Dirs, broken |-> {"r/d/"}]}

\* The selectors generate_index is called with.
Sections == {"*", "a", "."}

\* The drives the periodic rebuild goes through ('A'..='Z' in the code), in
\* their order, and the root directories the window sends for a rebuild.
Drives == <<"C", "D">>
Roots == {Drives[i] : i \in DOMAIN Drives}

\* The trees of successive rebuilds: the root with or without the file "a"
\* and the hidden file ".a".
CycleTrees ==
  {[files |-> F, readable |-> Dirs, broken |-> {}] :
     F \in SUBSET {[dir |-> "r/", name |-> <<"a">>],
                   [dir |-> "r/", name |-> <<".", "a">>]}}

\* The sections loaded after a rebuild.
CycleBuckets == {"a", "."}

\* What an index holds before it is crawled: an entry under a file name and
\* one under the reserved key.
CrawlInputs == {<<(<<"a">>), (<<"p1">>)>>, <<(<<".">>), (<<"p2">>)>>}

\* The queries put to a crawled index: a name, and the reserved key followed
\* by an extension key, each as an exact and as a wildcard query.
CrawlQueries ==
  {<<"a">>, <<".">>, <<".", "a">>, <<".", "a", "a">>,
   <<"a", "?">>, <<".", "?">>, <<".", "a", "?">>, <<".", "a", "a", "?">>}

(***************************************************************************)
(* char and str helpers of the standard library, as the code uses them.    *)
(***************************************************************************)
\* char::len_utf8
len_utf8(c) == IF c = "é" THEN 2 ELSE 1

\* str::len: the length of a string in bytes
RECURSIVE str_len(_)
str_len(s) == IF s = <<>> THEN 0 ELSE len_utf8(Head(s)) + str_len(Tail(s))

\* str::ends_with(char)
ends_with(s, c) == Len(s) > 0 /\ s[Len(s)] = c

\* str::starts_with(&str)
starts_with(s, p) == Len(p) <= Len(s) /\ SubSeq(s, 1, Len(p)) = p

\* String::pop, the string that is left
pop(s) == SubSeq(s, 1, Len(s) - 1)

(***************************************************************************)
(* data.rs: Node and its PathTree implementation.                          *)
(***************************************************************************)
NoChildren == [c \in {} |-> 0]

\* Node::new
Node_new == [children |-> NoChildren, paths |-> <<>>]

None == [some |-> FALSE]
Some(n) == [some |-> TRUE, node |-> n]

\* PathTree::groups, PathTree::val
groups(node) == node.children
val(node) == node.paths

\* PathTree::is_empty
is_empty(node) == DOMAIN node.children = {} /\ node.paths = <<>>

\* the map m with m[c] = n added or replaced (HashMap::insert / entry)
put(m, c, n) == [x \in DOMAIN m \cup {c} |-> IF x = c THEN n ELSE m[x]]

\* the map m without c (HashMap::remove)
remove(m, c) == [x \in DOMAIN m \ {c} |-> m[x]]

\* PathTree::get: Option<&Node>
RECURSIVE get(_, _)
get(node, key) ==
  IF key = <<>> THEN Some(node)
  ELSE IF Head(key) \in DOMAIN node.children
       THEN get(node.children[Head(key)], Tail(key))
       ELSE None

\* PathTree::insert, the loop from the i-th character of key on
RECURSIVE insert_from(_, _, _)
insert_from(node, key, value) ==
  IF key = <<>> THEN [node EXCEPT !.paths = Append(@, value)]
  ELSE LET c == Head(key)
           child == IF c \in DOMAIN node.children THEN node.children[c] ELSE Node_new
       IN [node EXCEPT !.children = put(@, c, insert_from(child, Tail(key), value))]

\* insert that skips a (key, value) pair the tree already holds
insert_dedup(node, key, value) ==
  IF get(node, key).some /\ \E i \in 1..Len(get(node, key).node.paths) :
                               get(node, key).node.paths[i] = value
  THEN node ELSE insert_from(node, key, value)

\* PathTree::insert
insert(node, key, value) == insert_from(node, key, value)

\* delete_recursive: the node after the call, the bool it returns, and
\* whether it panicked (key.chars().nth(depth).unwrap() on None)
RECURSIVE delete_recursive(_, _, _)
delete_recursive(node, key, depth) ==
  IF depth = str_len(key)
  THEN [node |-> [node EXCEPT !.paths = <<>>],
        ret |-> DOMAIN node.children = {}, panic |-> FALSE]
  ELSE IF depth >= Len(key)
  THEN [node |-> node, ret |-> FALSE, panic |-> TRUE]
  ELSE LET character == key[depth + 1] IN
       IF character \in DOMAIN node.children
       THEN LET r == delete_recursive(node.children[character], key, depth + 1) IN
            IF r.panic THEN [node |-> node, ret |-> FALSE, panic |-> TRUE]
            ELSE IF r.ret
            THEN LET rest == remove(node.children, character) IN
                 [node |-> [node EXCEPT !.children = rest],
                  ret |-> node.paths = <<>> /\ DOMAIN rest = {}, panic |-> FALSE]
            ELSE [node |-> [node EXCEPT !.children = put(@, character, r.node)],
                  ret |-> FALSE, panic |-> FALSE]
       ELSE [node |-> node, ret |-> FALSE, panic |-> FALSE]

\* the tree without the node at key and all that lies below it
RECURSIVE drop_subtree(_, _)
drop_subtree(node, key) ==
  IF key = <<>> THEN Node_new
  ELSE IF Head(key) \notin DOMAIN node.children THEN node
  ELSE IF Len(key) = 1 THEN [node EXCEPT !.children = remove(@, Head(key))]
  ELSE [node EXCEPT !.children =
          put(@, Head(key), drop_subtree(node.children[Head(key)], Tail(key)))]

\* delete that removes the node of the key together with its descendants
delete_with_subtree(node, key) == [node |-> drop_subtree(node, key), panic |-> FALSE]

\* the node with the values of the node at key cleared, nothing removed
RECURSIVE clear_paths_at(_, _)
clear_paths_at(node, key) ==
  IF key = <<>> THEN [node EXCEPT !.paths = <<>>]
  ELSE IF Head(key) \in DOMAIN node.children
       THEN [node EXCEPT !.children =
               put(@, Head(key), clear_paths_at(node.children[Head(key)], Tail(key)))]
       ELSE node

\* delete that clears the values of key and prunes nothing
delete_no_prune(node, key) ==
  [node |-> IF delete_recursive(node, key, 0).panic THEN node
            ELSE clear_paths_at(node, key),
   panic |-> delete_recursive(node, key, 0).panic]

\* PathTree::delete: the node after the call and whether the call panicked
delete(node, key) ==
  LET r == delete_recursive(node, key, 0) IN [node |-> r.node, panic |-> r.panic]

\* PathTree::clear
clear(node) == Node_new

\* PathTree::len: the number of nodes, the root included
RECURSIVE count_nodes(_)
RECURSIVE count_children(_, _)
count_nodes(node) == 1 + count_children(node, DOMAIN node.children)
count_children(node, S) ==
  IF S = {} THEN 0
  ELSE LET c == CHOOSE x \in S : TRUE
       IN count_nodes(node.children[c]) + count_children(node, S \ {c})

\* the number of paths held in the whole tree
RECURSIVE Entries(_)
RECURSIVE EntriesOf(_, _)
Entries(node) == Len(node.paths) + EntriesOf(node, DOMAIN node.children)
EntriesOf(node, S) ==
  IF S = {} THEN 0
  ELSE LET c == CHOOSE x \in S : TRUE
       IN Entries(node.children[c]) + EntriesOf(node, S \ {c})

(***************************************************************************)
(* search_engine.rs: Search::search.                                       *)
(***************************************************************************)
Err == [ok |-> FALSE, vals |-> <<>>]
Ok(v) == [ok |-> TRUE, vals |-> v]

\* traverse_node: every sequence the call can append to search_results; the
\* children are visited in the iteration order of a HashMap, which is any order
RECURSIVE traverse_node(_)
RECURSIVE traverse_groups(_, _)
traverse_node(node) ==
  {val(node) \o rest : rest \in traverse_groups(node, DOMAIN groups(node))}
traverse_groups(node, S) ==
  IF S = {} THEN {<<>>}
  ELSE UNION {{a \o b : a \in traverse_node(groups(node)[c]),
                        b \in traverse_groups(node, S \ {c})} : c \in S}

\* search whose wildcard query returns the values of the prefix node alone
search_own_only(index, keyword) ==
  LET key == IF ends_with(keyword, "?") THEN pop(keyword) ELSE keyword
      found == get(index, key)
  IN IF found.some THEN {Ok(val(found.node))} ELSE {Err}

\* search whose wildcard query leaves out the values of the prefix node
search_descendants_only(index, keyword) ==
  IF ~ends_with(keyword, "?")
  THEN LET found == get(index, keyword)
       IN IF found.some THEN {Ok(val(found.node))} ELSE {Err}
  ELSE LET found == get(index, pop(keyword))
       IN IF found.some
          THEN {Ok(r) : r \in traverse_groups(found.node, DOMAIN groups(found.node))}
          ELSE {Err}

\* search that answers a key that is not there with an empty success
search_empty_ok(index, keyword) ==
  LET key == IF ends_with(keyword, "?") THEN pop(keyword) ELSE keyword
      found == get(index, key)
  IN IF ~found.some THEN {Ok(<<>>)}
     ELSE IF ends_with(keyword, "?") THEN {Ok(r) : r \in traverse_node(found.node)}
     ELSE {Ok(val(found.node))}

\* Search::search: the set of results the call can return
search(index, keyword) ==
  IF ~ends_with(keyword, "?")
  THEN LET found == get(index, keyword)
       IN IF found.some THEN {Ok(val(found.node))} ELSE {Err}
  ELSE LET found == get(index, pop(keyword))
       IN IF found.some THEN {Ok(r) : r \in traverse_node(found.node)} ELSE {Err}

(***************************************************************************)
(* bincode: a Node is written as its map (the number of children, then     *)
(* each character and child, in the HashMap's iteration order) and its     *)
(* Vec of paths (the number of paths, then each path).                     *)
(***************************************************************************)
RECURSIVE serialize(_)
RECURSIVE serialize_map(_, _)
\* bincode::serialize_into: every byte sequence the call can write
serialize(node) ==
  {<<Cardinality(DOMAIN node.children)>> \o m \o <<Len(node.paths)>> \o node.paths :
     m \in serialize_map(node, DOMAIN node.children)}
serialize_map(node, S) ==
  IF S = {} THEN {<<>>}
  ELSE UNION {{<<c>> \o e \o rest : e \in serialize(node.children[c]),
                                   rest \in serialize_map(node, S \ {c})} : c \in S}

DeFail == [ok |-> FALSE, node |-> Node_new, rest |-> <<>>]

RECURSIVE deserialize_node(_)
RECURSIVE deserialize_map(_, _, _)
\* reading one Node off the front of bytes: the node and the bytes left, or
\* a failure when the bytes end early
deserialize_node(bytes) ==
  IF bytes = <<>> THEN DeFail
  ELSE LET m == deserialize_map(Head(bytes), Tail(bytes), NoChildren) IN
       IF ~m.ok \/ m.rest = <<>> THEN DeFail
       ELSE LET n == Head(m.rest) IN
            IF Len(m.rest) - 1 < n THEN DeFail
            ELSE [ok |-> TRUE,
                  node |-> [children |-> m.map, paths |-> SubSeq(m.rest, 2, n + 1)],
                  rest |-> SubSeq(m.rest, n + 2, Len(m.rest))]
deserialize_map(n, bytes, acc) ==
  IF n = 0 THEN [ok |-> TRUE, map |-> acc, rest |-> bytes]
  ELSE IF bytes = <<>> THEN [ok |-> FALSE, map |-> acc, rest |-> <<>>]
  ELSE LET child == deserialize_node(Tail(bytes)) IN
       IF ~child.ok THEN [ok |-> FALSE, map |-> acc, rest |-> <<>>]
       ELSE deserialize_map(n - 1, child.rest, put(acc, Head(bytes), child.node))

\* bincode::deserialize_from
deserialize_from(bytes) == deserialize_node(bytes)

\* what a write that fails part-way leaves in the file
truncated(bytes) == {SubSeq(bytes, 1, n) : n \in {0, Len(bytes) - 1}}

(***************************************************************************)
(* The file system under the working directory: whether it compares names  *)
(* without regard to case, the directories and the files there are.        *)
(***************************************************************************)
\* char::is_uppercase
is_uppercase(c) == c \in {"A", "C", "D"}

\* char::to_lowercase
to_lowercase(c) ==
  IF c = "A" THEN "a" ELSE IF c = "C" THEN "c" ELSE IF c = "D" THEN "d" ELSE c

\* format!("{}", bool)
fmt_bool(b) == IF b THEN "true" ELSE "false"

\* format!("index{}", search_part)
dir_name(search_part) == <<"index", search_part>>

\* the shard's name without the is_uppercase() suffix
shard_name_no_case(search_part, ch) == <<"index", search_part, "/data-", ch>>

\* format!("index{}/data-{}{}", search_part, ch, ch.is_uppercase())
shard_name(search_part, ch) ==
  <<"index", search_part, "/data-", ch, fmt_bool(is_uppercase(ch))>>

\* the name under which the file system files a name
fs_name(disk, name) ==
  IF disk.ci THEN [i \in DOMAIN name |-> to_lowercase(name[i])] ELSE name

NoFault == [kind |-> "none", at |-> "a"]

\* the loop of save_index over the buckets S still to write, in any order:
\* every (index, disk, panic) the call can end with. A fault strikes at one
\* bucket: File::create fails, serialize_into fails, or the BufWriter's
\* flush on drop fails (which is ignored).
RECURSIVE save_groups(_, _, _, _, _)
save_groups(index, search_part, disk, S, fault) ==
  IF S = {} THEN {[index |-> clear(index), disk |-> disk, panic |-> FALSE]}
  ELSE UNION {
    LET name == fs_name(disk, shard_name(search_part, ch))
        struck == fault.at = ch
        written(bytes) == [disk EXCEPT !.files = put(@, name, bytes)]
    IN IF fs_name(disk, dir_name(search_part)) \notin disk.dirs
          \/ (struck /\ fault.kind = "create")
       THEN {[index |-> index, disk |-> disk, panic |-> TRUE]}
       ELSE IF struck /\ fault.kind = "write"
       THEN {[index |-> index, disk |-> written(t), panic |-> TRUE] :
               t \in UNION {truncated(e) : e \in serialize(groups(index)[ch])}}
       ELSE IF struck /\ fault.kind = "flush"
       THEN UNION {save_groups(index, search_part, written(t), S \ {ch}, fault) :
               t \in UNION {truncated(e) : e \in serialize(groups(index)[ch])}}
       ELSE UNION {save_groups(index, search_part, written(e), S \ {ch}, fault) :
               e \in serialize(groups(index)[ch])}
    : ch \in S}

\* Search::save_index: every (index, disk, panic) the call can end with
save_index(index, search_part, disk, fault) ==
  IF is_empty(index) THEN {[index |-> index, disk |-> disk, panic |-> FALSE]}
  ELSE LET dir == fs_name(disk, dir_name(search_part))
           made == IF dir \in disk.dirs \/ fault.kind = "mkdir"
                   THEN disk.dirs ELSE disk.dirs \cup {dir}
       IN save_groups(index, search_part, [disk EXCEPT !.dirs = made],
                      DOMAIN groups(index), fault)

\* load_index reading the shard without making it the index
load_index_unassigned(index, search_part, disk, section) ==
  LET name == fs_name(disk, shard_name(search_part, section)) IN
  IF name \notin DOMAIN disk.files THEN [index |-> Node_new, panic |-> FALSE]
  ELSE LET read == deserialize_from(disk.files[name]) IN
       IF read.ok THEN [index |-> index, panic |-> FALSE]
       ELSE [index |-> index, panic |-> TRUE]

\* load_index keeping the children in memory that the shard does not have
load_index_merge(index, search_part, disk, section) ==
  LET name == fs_name(disk, shard_name(search_part, section)) IN
  IF name \notin DOMAIN disk.files THEN [index |-> Node_new, panic |-> FALSE]
  ELSE LET read == deserialize_from(disk.files[name]) IN
       IF read.ok
       THEN [index |-> [children |->
                          [c \in DOMAIN groups(index) \cup DOMAIN groups(read.node) |->
                             IF c \in DOMAIN groups(read.node)
                             THEN groups(read.node)[c] ELSE groups(index)[c]],
                        paths |-> val(read.node)],
             panic |-> FALSE]
       ELSE [index |-> index, panic |-> TRUE]

\* Search::load_index: the index after the call and whether it panicked
load_index(index, search_part, disk, section) ==
  LET name == fs_name(disk, shard_name(search_part, section)) IN
  IF name \notin DOMAIN disk.files THEN [index |-> Node_new, panic |-> FALSE]
  ELSE LET read == deserialize_from(disk.files[name]) IN
       IF read.ok THEN [index |-> read.node, panic |-> FALSE]
       ELSE [index |-> index, panic |-> TRUE]

(***************************************************************************)
(* search_engine.rs: Search::generate_index.                               *)
(***************************************************************************)
\* Path::extension of a file name: the part after the last '.', none when
\* there is no '.' or the only '.' is the first character
has_extension(name) ==
  \E i \in 2..Len(name) : name[i] = "."
extension(name) ==
  LET last == CHOOSE i \in 2..Len(name) :
                name[i] = "." /\ \A j \in (i + 1)..Len(name) : name[j] # "."
  IN SubSeq(name, last + 1, Len(name))

\* path.extension().unwrap_or(OsStr::new("None"))
extension_or_None(name) ==
  IF has_extension(name) THEN extension(name) ELSE <<"N", "o", "n", "e">>

\* entry.path()
path_of(dir, name) == <<dir>> \o name

\* the directory entries read_dir yields for dir
entries_of(tree, dir) ==
  {[kind |-> "file", dir |-> dir, name |-> f.name] : f \in {g \in tree.files : g.dir = dir}}
  \cup (IF dir = "r/" THEN {[kind |-> "dir", dir |-> "r/d/", name |-> <<"d">>]} ELSE {})
  \cup (IF dir \in tree.broken THEN {[kind |-> "err", dir |-> dir, name |-> <<>>]} ELSE {})

\* the Node::add_value the crawl ends with: the extension index becomes the
\* child '.' of the index
add_value(node, ch, child) ==
  IF is_empty(child) THEN node
  ELSE [node EXCEPT !.children = put(@, ch, child)]

\* the body of the loop for one file, without the test for a leading '.'
index_file_hidden_too(index, extension_node, entry, section) ==
  IF starts_with(entry.name, <<section>>) \/ section = "*"
  THEN LET path == path_of(entry.dir, entry.name)
           file_name == Tail(entry.name)
           ext == IF extension_or_None(entry.name) = <<"N", "o", "n", "e">>
                  THEN file_name ELSE extension_or_None(entry.name)
       IN [index |-> insert(index, entry.name, path),
           extension_node |-> insert(extension_node, ext, path),
           panic |-> FALSE]
  ELSE [index |-> index, extension_node |-> extension_node, panic |-> FALSE]

\* the body of the loop for one file (search_engine.rs:163-186)
index_file(index, extension_node, entry, section) ==
  IF starts_with(entry.name, <<section>>) \/ section = "*"
  THEN LET path == path_of(entry.dir, entry.name)
           file_name == Tail(entry.name)
           ext == IF extension_or_None(entry.name) = <<"N", "o", "n", "e">>
                  THEN file_name ELSE extension_or_None(entry.name)
       IN [index |-> IF ~starts_with(entry.name, <<".">>)
                     THEN insert(index, entry.name, path) ELSE index,
           extension_node |-> insert(extension_node, ext, path),
           panic |-> FALSE]
  ELSE [index |-> index, extension_node |-> extension_node, panic |-> FALSE]

\* traverse_directory: every (index, extension_node, panic) the walk of
\* current_dir can end with; read_dir yields the entries in any order
RECURSIVE traverse_directory(_, _, _, _, _)
RECURSIVE traverse_entries(_, _, _, _, _)
traverse_directory(index, extension_node, current_dir, section, tree) ==
  IF current_dir \notin tree.readable
  THEN {[index |-> index, extension_node |-> extension_node, panic |-> FALSE]}
  ELSE traverse_entries(index, extension_node, entries_of(tree, current_dir),
                        section, tree)
traverse_entries(index, extension_node, E, section, tree) ==
  IF E = {} THEN {[index |-> index, extension_node |-> extension_node, panic |-> FALSE]}
  ELSE UNION {
    LET after ==
          IF entry.kind = "err"
          THEN {[index |-> index, extension_node |-> extension_node, panic |-> TRUE]}
          ELSE IF entry.kind = "dir"
          THEN traverse_directory(index, extension_node, entry.dir, section, tree)
          ELSE {index_file(index, extension_node, entry, section)}
    IN UNION {IF a.panic THEN {a}
              ELSE traverse_entries(a.index, a.extension_node, E \ {entry}, section, tree) :
              a \in after}
    : entry \in E}

\* generate_index without the clear() it begins with
generate_index_no_clear(index, tree, section) ==
  {IF w.panic THEN [index |-> w.index, panic |-> TRUE]
   ELSE [index |-> add_value(w.index, ".", w.extension_node), panic |-> FALSE] :
   w \in traverse_directory(index, Node_new, "r/", section, tree)}

\* Search::generate_index: every (index, panic) the call can end with
generate_index(index, tree, section) ==
  {IF w.panic THEN [index |-> w.index, panic |-> TRUE]
   ELSE [index |-> add_value(w.index, ".", w.extension_node), panic |-> FALSE] :
   w \in traverse_directory(clear(index), Node_new, "r/", section, tree)}

(***************************************************************************)
(* The state: one Search value (index, search_part), the shard files on    *)
(* disk, the directory tree that is crawled, and whether the thread that   *)
(* owns the Search has panicked. lastOp and log are history: the last call *)
(* with what it met and returned (prior: whether the index held anything   *)
(* when it began), and the (key, value) pairs inserted.                    *)
(***************************************************************************)
VARIABLES index, search_part, disk, tree, panicked, lastOp, log,
          channel, worker

vars == <<index, search_part, disk, tree, panicked, lastOp, log, channel, worker>>

\* the two rebuild threads of the window: where each is in its loop, and
\* the root directory set on its engine ("" before the first set_root_dir);
\* drive is the position of the periodic thread in its loop over the drives
Idle ==
  [on_demand |-> [pc |-> "recv", root |-> "", drive |-> 0],
   periodic |-> [pc |-> "sleep", root |-> "", drive |-> 0]]

NoOp ==
  [op |-> "new", key |-> <<>>, hit |-> FALSE, res |-> Err, fault |-> "none",
   ret |-> "()", prior |-> FALSE]

NoTree == [files |-> {}, readable |-> Dirs, broken |-> {}]

\* Search::new, on a disk without shard files
InitWith(t, ci) ==
  /\ index = Node_new
  /\ search_part = "C"
  /\ disk = [ci |-> ci, dirs |-> {}, files |-> NoChildren]
  /\ tree = t
  /\ panicked = FALSE
  /\ lastOp = NoOp
  /\ log = <<>>
  /\ channel = <<>>
  /\ worker = Idle

Init == InitWith(NoTree, FALSE)

\* index.insert(key, value)
Insert(key, value) ==
  /\ ~panicked
  /\ Entries(index) < MaxEntries
  /\ index' = insert(index, key, value)
  /\ lastOp' = [NoOp EXCEPT !.op = "insert"]
  /\ UNCHANGED <<search_part, disk, tree, panicked, log, channel, worker>>

\* index.insert(key, value), written down in the log
InsertLogged(key, value) ==
  /\ ~panicked
  /\ Entries(index) < MaxEntries
  /\ index' = insert(index, key, value)
  /\ lastOp' = [NoOp EXCEPT !.op = "insert"]
  /\ log' = Append(log, <<key, value>>)
  /\ UNCHANGED <<search_part, disk, tree, panicked, channel, worker>>

\* index.delete(key)
Delete(key) ==
  /\ ~panicked
  /\ index' = delete(index, key).node
  /\ panicked' = delete(index, key).panic
  /\ lastOp' = [NoOp EXCEPT !.op = "delete", !.key = key,
                  !.hit = get(index, key).some,
                  !.ret = IF delete(index, key).panic THEN "panic" ELSE "()"]
  /\ UNCHANGED <<search_part, disk, tree, log, channel, worker>>

\* index.clear()
Clear ==
  /\ ~panicked
  /\ index' = clear(index)
  /\ lastOp' = [NoOp EXCEPT !.op = "clear"]
  /\ UNCHANGED <<search_part, disk, tree, panicked, log, channel, worker>>

\* search(keyword)
Search(keyword) ==
  /\ ~panicked
  /\ \E r \in search(index, keyword) :
       lastOp' = [NoOp EXCEPT !.op = "search", !.key = keyword, !.res = r,
                    !.ret = IF r.ok THEN "Ok" ELSE "Err"]
  /\ UNCHANGED <<index, search_part, disk, tree, panicked, log, channel, worker>>

\* set_part(part)
SetPart(part) ==
  /\ ~panicked
  /\ search_part' = part
  /\ lastOp' = [NoOp EXCEPT !.op = "set_part"]
  /\ UNCHANGED <<index, disk, tree, panicked, log, channel, worker>>

\* the faults a save can meet: none, or create_dir, File::create,
\* serialize_into or the flush of the BufWriter failing at one bucket
Faults ==
  {NoFault} \cup [kind : {"mkdir", "create", "write", "flush"}, at : Buckets]

\* whether the fault is met by a save_index() of this index
strikes(fault, idx, part, dsk) ==
  /\ ~is_empty(idx)
  /\ \/ fault.kind = "mkdir" /\ fs_name(dsk, dir_name(part)) \notin dsk.dirs
     \/ fault.kind \in {"create", "write", "flush"} /\ fault.at \in DOMAIN groups(idx)

\* save_index(), with the fault the file system answers it with
SaveIndex(fault) ==
  /\ ~panicked
  /\ fault = NoFault \/ strikes(fault, index, search_part, disk)
  /\ \E end \in save_index(index, search_part, disk, fault) :
       /\ index' = end.index
       /\ disk' = end.disk
       /\ panicked' = end.panic
       /\ lastOp' = [NoOp EXCEPT !.op = "save", !.hit = ~is_empty(index),
                       !.fault = fault.kind,
                       !.ret = IF end.panic THEN "panic" ELSE "()"]
  /\ UNCHANGED <<search_part, tree, log, channel, worker>>

\* load_index(section)
LoadIndex(section) ==
  LET name == fs_name(disk, shard_name(search_part, section))
      end == load_index(index, search_part, disk, section)
  IN /\ ~panicked
     /\ index' = end.index
     /\ panicked' = end.panic
     /\ lastOp' = [NoOp EXCEPT !.op = "load", !.key = <<section>>,
                     !.prior = ~is_empty(index),
                     !.hit = name \in DOMAIN disk.files,
                     !.fault = IF name \in DOMAIN disk.files
                                  /\ ~deserialize_from(disk.files[name]).ok
                               THEN "corrupt" ELSE "none",
                     !.ret = IF end.panic THEN "panic" ELSE "()"]
     /\ UNCHANGED <<search_part, disk, tree, log, channel, worker>>

\* generate_index(root_dir, section)
GenerateIndex(section) ==
  /\ ~panicked
  /\ \E end \in generate_index(index, tree, section) :
       /\ index' = end.index
       /\ panicked' = end.panic
       /\ lastOp' = [NoOp EXCEPT !.op = "generate", !.key = <<section>>,
                       !.prior = ~is_empty(index),
                       !.ret = IF end.panic THEN "panic" ELSE "()"]
  /\ UNCHANGED <<search_part, disk, tree, log, channel, worker>>

\* the files under the root change between two crawls
ChangeTree(t) ==
  /\ t # tree
  /\ tree' = t
  /\ UNCHANGED <<index, search_part, disk, panicked, lastOp, log, channel, worker>>

\* a panic ends the thread that owns the Search; the next one starts with
\* Search::new, on the same disk
Restart ==
  /\ panicked
  /\ index' = Node_new
  /\ search_part' = "C"
  /\ panicked' = FALSE
  /\ lastOp' = NoOp
  /\ UNCHANGED <<disk, tree, log, channel, worker>>

\* the window sends the root directory typed in for a rebuild
Send(root) ==
  /\ Len(channel) < MaxQueue
  /\ channel' = Append(channel, root)
  /\ UNCHANGED <<index, search_part, disk, tree, panicked, lastOp, log, worker>>

\* the on-demand thread: recv.recv() yields a message, set_root_dir
Recv ==
  /\ worker.on_demand.pc = "recv"
  /\ channel # <<>>
  /\ worker' = [worker EXCEPT !.on_demand.pc = "generate",
                              !.on_demand.root = Head(channel)]
  /\ channel' = Tail(channel)
  /\ UNCHANGED <<index, search_part, disk, tree, panicked, lastOp, log>>

\* the periodic thread: the sleep ends, the loop over the drives begins
\* with set_root_dir for the first one
Wake ==
  /\ worker.periodic.pc = "sleep"
  /\ worker' = [worker EXCEPT !.periodic.pc = "generate",
                              !.periodic.root = Drives[1],
                              !.periodic.drive = 1]
  /\ UNCHANGED <<index, search_part, disk, tree, panicked, lastOp, log, channel>>

\* a thread's engine ends generate_index and begins save_index
Generated(w) ==
  /\ worker[w].pc = "generate"
  /\ worker' = [worker EXCEPT ![w].pc = "save"]
  /\ UNCHANGED <<index, search_part, disk, tree, panicked, lastOp, log, channel>>

\* a thread's engine ends save_index and begins clear_index_files
Saved(w) ==
  /\ worker[w].pc = "save"
  /\ worker' = [worker EXCEPT ![w].pc = "clear"]
  /\ UNCHANGED <<index, search_part, disk, tree, panicked, lastOp, log, channel>>

\* the on-demand thread ends its cycle and waits for the next message
OnDemandDone ==
  /\ worker.on_demand.pc = "clear"
  /\ worker' = [worker EXCEPT !.on_demand.pc = "recv"]
  /\ UNCHANGED <<index, search_part, disk, tree, panicked, lastOp, log, channel>>

\* the periodic thread ends a cycle: on to the next drive, or to sleep
PeriodicDone ==
  /\ worker.periodic.pc = "clear"
  /\ worker' =
       IF worker.periodic.drive < Len(Drives)
       THEN [worker EXCEPT !.periodic.pc = "generate",
                           !.periodic.root = Drives[worker.periodic.drive + 1],
                           !.periodic.drive = worker.periodic.drive + 1]
       ELSE [worker EXCEPT !.periodic.pc = "sleep", !.periodic.drive = 0]
  /\ UNCHANGED <<index, search_part, disk, tree, panicked, lastOp, log, channel>>

(***************************************************************************)
(* Spec: the trie operations on one index.                                 *)
(***************************************************************************)
Next ==
  \/ \E key \in KeySet, value \in Values : Insert(key, value)
  \/ \E key \in KeySet : Delete(key)
  \/ Clear
  \/ Restart

Spec == Init /\ [][Next]_vars

(***************************************************************************)
(* SpecInsert: nothing but insert calls, each one logged.                  *)
(***************************************************************************)
NextInsert == \E key \in KeySet, value \in Values : InsertLogged(key, value)

SpecInsert == Init /\ [][NextInsert]_vars

(***************************************************************************)
(* SpecQuery: queries against an index built by insert and clear.          *)
(***************************************************************************)
NextQuery ==
  \/ \E key \in QueryKeys, value \in Values : Insert(key, value)
  \/ Clear
  \/ \E keyword \in QuerySet : Search(keyword)

SpecQuery == Init /\ [][NextQuery]_vars

(***************************************************************************)
(* SpecIndex: insert, delete, clear and generate_index over a directory    *)
(* tree that does not change.                                              *)
(***************************************************************************)
InitIndex == \E t \in Trees : InitWith(t, FALSE)

NextIndex ==
  \/ \E key \in IndexKeys, value \in Values : Insert(key, value)
  \/ \E key \in IndexKeys : Delete(key)
  \/ Clear
  \/ \E section \in Sections : GenerateIndex(section)
  \/ Restart

SpecIndex == InitIndex /\ [][NextIndex]_vars

(***************************************************************************)
(* SpecCrawl: generate_index over a directory tree that does not change,   *)
(* on an index that may hold entries, and queries of the crawled index.    *)
(***************************************************************************)
NextCrawl ==
  \/ \E input \in CrawlInputs : Insert(input[1], input[2])
  \/ \E section \in Sections : GenerateIndex(section)
  \/ \E keyword \in CrawlQueries : Search(keyword)
  \/ Restart

SpecCrawl == InitIndex /\ [][NextCrawl]_vars

(***************************************************************************)
(* SpecCycle: rebuilds of one scope, each a generate_index and a           *)
(* save_index, over a tree that changes in between, and loads of shards.   *)
(***************************************************************************)
InitCycle == \E t \in CycleTrees : InitWith(t, FALSE)

NextCycle ==
  \/ \E section \in Sections : GenerateIndex(section)
  \/ SaveIndex(NoFault)
  \/ \E section \in CycleBuckets : LoadIndex(section)
  \/ \E t \in CycleTrees : ChangeTree(t)

SpecCycle == InitCycle /\ [][NextCycle]_vars

(***************************************************************************)
(* SpecGui: the two rebuild threads the window starts, and the messages    *)
(* it sends to the on-demand one.                                          *)
(***************************************************************************)
NextGui ==
  \/ \E root \in Roots : Send(root)
  \/ Recv
  \/ Wake
  \/ \E w \in {"on_demand", "periodic"} : Generated(w)
  \/ \E w \in {"on_demand", "periodic"} : Saved(w)
  \/ OnDemandDone
  \/ PeriodicDone

SpecGui == Init /\ [][NextGui]_vars

(***************************************************************************)
(* SpecStore: an index built by insert, saved to and loaded from the       *)
(* shards of the scope, on a file system that may fail a write.            *)
(***************************************************************************)
InitStore == \E ci \in BOOLEAN : InitWith(NoTree, ci)

NextStore ==
  \/ \E input \in StoreInputs : Insert(input[1], input[2])
  \/ \E fault \in Faults : SaveIndex(fault)
  \/ \E section \in Buckets : LoadIndex(section)
  \/ Restart

SpecStore == InitStore /\ [][NextStore]_vars

(***************************************************************************)
(* The claims.                                                             *)
(***************************************************************************)
\* what get(key) yields: whether there is a node, and its values
Lookup(node, key) ==
  IF get(node, key).some
  THEN [some |-> TRUE, paths |-> val(get(node, key).node)]
  ELSE [some |-> FALSE, paths |-> <<>>]

\* a step that is a save_index() of a non-empty index which meets no fault
CleanSave ==
  /\ lastOp'.op = "save" /\ lastOp'.hit
  /\ lastOp'.fault = "none" /\ lastOp'.ret = "()"

\* the index load_index(section) yields in the state a step leads to
LoadedNext(section) == load_index(index', search_part', disk', section).index

\* C1 as stated: after save_index and load_index(c) on the same scope, every
\* key K beginning with c, a bucket of the saved index, is mapped by get(K)
\* on the loaded index to the values get(K) gave on the index before the save.
C1_RoundTripSameKey ==
  [][CleanSave =>
       \A c \in DOMAIN groups(index) : \A K \in StoreKeys :
         (K # <<>> /\ Head(K) = c) =>
           Lookup(LoadedNext(c), K) = Lookup(index, K)]_vars

\* C1 amended: the loaded index is the bucket's subtree, so it is K without
\* its leading character c that get maps to the values get(K) gave before
\* the save.
C1_RoundTripTailKey ==
  [][CleanSave =>
       \A c \in DOMAIN groups(index) : \A K \in StoreKeys :
         (K # <<>> /\ Head(K) = c) =>
           Lookup(LoadedNext(c), Tail(K)) = Lookup(index, K)]_vars

\* C1 witness: bucket 'a', saved with a value under "a" and one under "aa",
\* has been loaded back
C1_Witness ==
  /\ lastOp.op = "load" /\ lastOp.key = <<"a">> /\ lastOp.hit /\ lastOp.ret = "()"
  /\ Lookup(index, <<>>) = [some |-> TRUE, paths |-> <<(<<"p1">>)>>]
  /\ Lookup(index, <<"a">>) = [some |-> TRUE, paths |-> <<(<<"p1">>)>>]

\* C6 as stated: load_index(section) never panics, and leaves the index
\* empty when the shard file is missing or cannot be deserialized.
C6_LoadNeverFails ==
  lastOp.op = "load" =>
    /\ lastOp.ret = "()" /\ ~panicked
    /\ (~lastOp.hit \/ lastOp.fault = "corrupt") => is_empty(index)

\* C7 as stated: a save_index() that meets a write failure ends with an
\* outcome that is neither the return of a successful save nor a panic.
C7_WriteFailureSurfaced ==
  (lastOp.op = "save" /\ lastOp.fault # "none") =>
    (~panicked /\ lastOp.ret \notin {"()", "panic"})

\* the name as a file system that ignores case compares it
CaseFolded(name) == [i \in DOMAIN name |-> to_lowercase(name[i])]

\* C8: a save of an index with the buckets c and C, one letter in its two
\* cases, writes two files whose names differ even when case is ignored,
\* and loading either bucket then yields that bucket's subtree alone.
C8_CaseBucketsApart ==
  [][CleanSave =>
       \A c \in DOMAIN groups(index), C \in DOMAIN groups(index) :
         (c # C /\ to_lowercase(C) = c) =>
           /\ CaseFolded(shard_name(search_part, c))
                # CaseFolded(shard_name(search_part, C))
           /\ fs_name(disk', shard_name(search_part, c))
                # fs_name(disk', shard_name(search_part, C))
           /\ {fs_name(disk', shard_name(search_part, c)),
               fs_name(disk', shard_name(search_part, C))} \subseteq DOMAIN disk'.files
           /\ LoadedNext(c) = groups(index)[c]
           /\ LoadedNext(C) = groups(index)[C]]_vars

\* C8 witness: on a file system that ignores case, with the shards of 'a'
\* and 'A' both on disk, bucket 'a' has been loaded with its own value
C8_Witness ==
  /\ disk.ci
  /\ lastOp.op = "load" /\ lastOp.key = <<"a">> /\ lastOp.hit /\ lastOp.ret = "()"
  /\ {fs_name(disk, shard_name(search_part, "a")),
      fs_name(disk, shard_name(search_part, "A"))} \subseteq DOMAIN disk.files
  /\ deserialize_from(disk.files[fs_name(disk, shard_name(search_part, "A"))]).ok
  /\ val(index) = <<(<<"p2">>)>>

\* a step that is a delete(K) which returns
DeleteReturned(K) ==
  lastOp'.op = "delete" /\ lastOp'.key = K /\ lastOp'.ret = "()"

\* the strings K is a proper extension of, the empty one left out
Ancestors(K) == {SubSeq(K, 1, n) : n \in 1..(Len(K) - 1)}

\* no ancestor of K is left in the tree without children and values
AncestorsPruned(node, K) ==
  \A P \in Ancestors(K) : get(node, P).some => ~is_empty(get(node, P).node)

\* C2 as stated: after delete(K), for every key K, get(K) yields None, and
\* no ancestor of K is left without children and values.
C2_DeleteThenGetNone ==
  [][\A K \in KeySet : DeleteReturned(K) =>
       /\ ~get(index', K).some
       /\ AncestorsPruned(index', K)]_vars

\* C2 amended: after delete(K) has returned, get(K) yields no values: it is
\* None when K is not empty and no node lay below K's, and else the node of
\* K, which is the root or has children, with empty values. No ancestor of
\* K is left without children and values, and an ancestor that held values
\* still holds them.
C2_DeletePrunes ==
  [][\A K \in KeySet : DeleteReturned(K) =>
       /\ Lookup(index', K).paths = <<>>
       /\ get(index', K).some =>
            (K = <<>> \/ DOMAIN groups(get(index', K).node) # {})
       /\ (K # <<>> /\ (get(index, K).some => DOMAIN groups(get(index, K).node) = {}))
            => ~get(index', K).some
       /\ AncestorsPruned(index', K)
       /\ \A P \in Ancestors(K) \cup {<<>>} :
            (P # K /\ Lookup(index, P).paths # <<>>) => Lookup(index', P) = Lookup(index, P)]_vars

\* C2 witness: "aa" has been deleted from a tree that held "a" and "aa";
\* "a" is there with its value and "aa" is gone
C2_Witness ==
  /\ lastOp.op = "delete" /\ lastOp.key = <<"a", "a">> /\ lastOp.hit
  /\ lastOp.ret = "()"
  /\ Lookup(index, <<"a">>).paths # <<>>
  /\ ~get(index, <<"a", "a">>).some

\* the values the log holds for key, in the order they were inserted
RECURSIVE ValuesUnder(_, _)
ValuesUnder(l, key) ==
  IF l = <<>> THEN <<>>
  ELSE IF Head(l)[1] = key THEN <<Head(l)[2]>> \o ValuesUnder(Tail(l), key)
       ELSE ValuesUnder(Tail(l), key)

\* C3: after any sequence of insert calls, get(K).values is the sequence of
\* the values inserted under K, one per call and in the order of the calls,
\* and holds nothing inserted under another key.
C3_InsertedValues ==
  \A K \in KeySet :
    /\ Lookup(index, K).paths = ValuesUnder(log, K)
    /\ ValuesUnder(log, K) # <<>> => get(index, K).some

\* C3 witness: the same (key, value) pair has been inserted twice
C3_Witness ==
  /\ Len(log) = 2 /\ log[1] = log[2]
  /\ Len(Lookup(index, log[1][1]).paths) = 2

\* no node below this one is without children and values
RECURSIVE NoEmptyNode(_)
NoEmptyNode(node) ==
  \A c \in DOMAIN groups(node) :
    ~is_empty(groups(node)[c]) /\ NoEmptyNode(groups(node)[c])

QueryKey(keyword) == IF ends_with(keyword, "?") THEN pop(keyword) ELSE keyword

\* C5 as stated: a query of an empty index, whatever its text, and a query
\* of any index for a key that is not there, returns Err.
C5_MissIsErr ==
  (lastOp.op = "search"
     /\ (is_empty(index) \/ ~get(index, QueryKey(lastOp.key)).some))
    => lastOp.ret = "Err"

\* C5 amended: a query for a key that is no path of the index returns Err,
\* never an empty success; on an empty index that is every query but the
\* empty text and the lone wildcard marker, whose key is the root: these
\* two return an empty success.
C5_AbsentKeyIsErr ==
  lastOp.op = "search" =>
    /\ ~get(index, QueryKey(lastOp.key)).some => lastOp.ret = "Err"
    /\ is_empty(index) =>
         /\ QueryKey(lastOp.key) # <<>> => lastOp.ret = "Err"
         /\ QueryKey(lastOp.key) = <<>> => lastOp.res = Ok(<<>>)

\* C5 witness: a wildcard query of a non-empty index for a prefix that is
\* not there has returned Err
C5_Witness ==
  /\ lastOp.op = "search" /\ lastOp.key = <<"?", "a", "?">>
  /\ get(index, <<"a">>).some
  /\ lastOp.ret = "Err"

\* how often v occurs in the sequence
RECURSIVE Count(_, _)
Count(seq, v) ==
  IF seq = <<>> THEN 0
  ELSE (IF Head(seq) = v THEN 1 ELSE 0) + Count(Tail(seq), v)

\* C9: whenever the exact query search(P) succeeds, the wildcard query
\* search(P + '?') succeeds too and returns every element of the exact
\* result at least as often.
C9_WildcardSuperset ==
  \A P \in QueryKeys : ~ends_with(P, "?") =>
    \A exact \in search(index, P) : exact.ok =>
      \A wild \in search(index, P \o <<"?">>) :
        /\ wild.ok
        /\ \A v \in Values : Count(exact.vals, v) <= Count(wild.vals, v)

\* C9 witness: the wildcard query "a?" has returned more than the value
\* the exact query "a" finds
C9_Witness ==
  /\ lastOp.op = "search" /\ lastOp.key = <<"a", "?">> /\ lastOp.ret = "Ok"
  /\ Len(Lookup(index, <<"a">>).paths) = 1
  /\ Len(lastOp.res.vals) = 2

\* the paths of the nodes of a tree, as strings
RECURSIVE NodePaths(_)
NodePaths(node) ==
  {<<>>} \cup UNION {{<<c>> \o p : p \in NodePaths(groups(node)[c])} :
                      c \in DOMAIN groups(node)}

\* how often v is stored under the keys of the set S
RECURSIVE StoredCount(_, _, _)
StoredCount(node, S, v) ==
  IF S = {} THEN 0
  ELSE LET K == CHOOSE x \in S : TRUE
       IN Count(Lookup(node, K).paths, v) + StoredCount(node, S \ {K}, v)

\* whether part occurs in seq as one block
IsBlockOf(part, seq) ==
  \E i \in 0..(Len(seq) - Len(part)) : SubSeq(seq, i + 1, i + Len(part)) = part

\* C10: a query text ending with '?' is answered for the text without the
\* marker: with Err iff no path of the index starts with that prefix, and
\* else with the values stored under the keys that start with it, each as
\* often as it is stored, the prefix node's values first and every node's
\* values in the order they were inserted.
C10_WildcardCollects ==
  (lastOp.op = "search" /\ ends_with(lastOp.key, "?")) =>
    LET P == pop(lastOp.key)
        under == {K \in NodePaths(index) : starts_with(K, P)}
        r == lastOp.res
    IN /\ (lastOp.ret = "Ok") = r.ok
       /\ r.ok <=> under # {}
       /\ r.ok =>
            /\ \A v \in Values : Count(r.vals, v) = StoredCount(index, under, v)
            /\ SubSeq(r.vals, 1, Len(Lookup(index, P).paths)) = Lookup(index, P).paths
            /\ \A K \in under : IsBlockOf(Lookup(index, K).paths, r.vals)

\* C10 witness: the wildcard query "??" has been answered for the prefix
\* "?", with the value of the key "?" and then that of the key "?a"
C10_Witness ==
  /\ lastOp.op = "search" /\ lastOp.key = <<"?", "?">> /\ lastOp.ret = "Ok"
  /\ Len(Lookup(index, <<"?">>).paths) = 1
  /\ Len(Lookup(index, <<"?", "a">>).paths) = 1
  /\ lastOp.res.vals = Lookup(index, <<"?">>).paths \o Lookup(index, <<"?", "a">>).paths

\* the files a walk from the root meets: those in directories it can read
Found(t) ==
  {f \in t.files : "r/" \in t.readable /\ (f.dir = "r/" \/ "r/d/" \in t.readable)}

\* what the walk of the last generate_index call can end with, before the
\* extension index is merged in: the primary index and the extension index
Walks ==
  IF lastOp.op = "generate" /\ lastOp.ret = "()"
  THEN {w \in traverse_directory(Node_new, Node_new, "r/", lastOp.key[1], tree) :
          ~w.panic}
  ELSE {}

\* whether the selector takes the file name
Selected(name, section) == section = "*" \/ Head(name) = section

\* whether the node of key holds the path among its values
Holds(node, key, path) ==
  \E i \in DOMAIN Lookup(node, key).paths : Lookup(node, key).paths[i] = path

\* whether some key of the tree holds the path
HoldsSomewhere(node, path) == \E key \in NodePaths(node) : Holds(node, key, path)

\* C11 as stated: after generate_index, a file found under the root is in the
\* primary index under its name with its path iff its name does not start
\* with '.' and the selector takes it; a hidden file is never in the primary
\* index and has an entry in the extension index whatever the selector.
C11_HiddenAlwaysInExtension ==
  \A w \in Walks : \A f \in Found(tree) :
    LET path == path_of(f.dir, f.name) IN
    /\ Holds(w.index, f.name, path)
          <=> (Head(f.name) # "." /\ Selected(f.name, lastOp.key[1]))
    /\ Head(f.name) = "." =>
          (~HoldsSomewhere(w.index, path) /\ HoldsSomewhere(w.extension_node, path))

\* C11 amended: the primary index is as stated; a file, hidden or not, has
\* an entry in the extension index iff the selector takes it, which for a
\* hidden file means the selector is '*' or '.'.
C11_SelectorGatesBoth ==
  \A w \in Walks : \A f \in Found(tree) :
    LET path == path_of(f.dir, f.name) IN
    /\ Holds(w.index, f.name, path)
          <=> (Head(f.name) # "." /\ Selected(f.name, lastOp.key[1]))
    /\ Head(f.name) = "." => ~HoldsSomewhere(w.index, path)
    /\ HoldsSomewhere(w.extension_node, path) <=> Selected(f.name, lastOp.key[1])
    /\ Head(f.name) = "." =>
          (HoldsSomewhere(w.extension_node, path) <=> lastOp.key[1] \in {"*", "."})

\* C11 witness: a crawl with the selector 'a' has met the file "a" and the
\* hidden file ".a": "a" is in the index and ".a" has left no entry
C11_Witness ==
  /\ lastOp.op = "generate" /\ lastOp.key = <<"a">> /\ lastOp.ret = "()"
  /\ {[dir |-> "r/", name |-> <<"a">>], [dir |-> "r/", name |-> <<".", "a">>]}
       \subseteq Found(tree)
  /\ Holds(index, <<"a">>, path_of("r/", <<"a">>))
  /\ ~HoldsSomewhere(index, path_of("r/", <<".", "a">>))

\* C12 as stated: in the extension index a crawl builds, a file with an
\* extension is keyed by that extension and a file without one by its
\* complete file name.
C12_ExtensionKey ==
  \A w \in Walks : \A f \in Found(tree) :
    Selected(f.name, lastOp.key[1]) =>
      Holds(w.extension_node,
            IF has_extension(f.name) THEN extension(f.name) ELSE f.name,
            path_of(f.dir, f.name))

\* C13 as stated: generate_index never fails: it returns whatever directory
\* or directory entry the walk cannot read, and when the root directory
\* cannot be read the index is empty afterwards.
C13_GenerateNeverFails ==
  lastOp.op = "generate" =>
    /\ lastOp.ret = "()" /\ ~panicked
    /\ "r/" \notin tree.readable => is_empty(index)

\* the paths an index can hold: those handed to insert and those of files
PathValues == Values \cup {path_of(f.dir, f.name) : f \in FileUniverse}

\* whether two trees have the same nodes and every node the same values,
\* each as often
SameContents(n1, n2) ==
  /\ NodePaths(n1) = NodePaths(n2)
  /\ \A K \in NodePaths(n1) : \A v \in PathValues :
       Count(Lookup(n1, K).paths, v) = Count(Lookup(n2, K).paths, v)

\* C14: generate_index is a full rebuild. On an index with any content it
\* can end with exactly what it can end with on a fresh index over the same
\* tree and selector; nothing handed to insert before the crawl is left;
\* and a second run right after it yields the same contents.
C14_FullRebuild ==
  [][(lastOp'.op = "generate" /\ lastOp'.ret = "()") =>
       LET fresh == generate_index(Node_new, tree, lastOp'.key[1]) IN
       /\ generate_index(index, tree, lastOp'.key[1]) = fresh
       /\ index' \in {e.index : e \in fresh}
       /\ \A v \in Values : ~HoldsSomewhere(index', v)
       /\ \A e \in generate_index(index', tree', lastOp'.key[1]) :
            ~e.panic /\ SameContents(e.index, index')]_vars

\* C14 witness: a crawl has run on an index that held entries and has left
\* an index with the two files of the tree, under the same name, and
\* nothing else
C14_Witness ==
  /\ lastOp.op = "generate" /\ lastOp.prior /\ lastOp.ret = "()"
  /\ Found(tree) = {[dir |-> "r/", name |-> <<"a">>], [dir |-> "r/d/", name |-> <<"a">>]}
  /\ Len(Lookup(index, <<"a">>).paths) = 2
  /\ Entries(index) = 4

\* the key under which the crawl files a name in the extension index
ExtKeyOf(name) ==
  IF extension_or_None(name) = <<"N", "o", "n", "e">>
  THEN Tail(name) ELSE extension_or_None(name)

\* the files a crawl with the selector has met whose extension key is E
\* (exact) or starts with E (not exact)
FilesKeyed(t, section, E, exact) ==
  {f \in Found(t) :
     /\ Selected(f.name, section)
     /\ IF exact THEN ExtKeyOf(f.name) = E ELSE starts_with(ExtKeyOf(f.name), E)}

\* C15: a query that begins with '.', put to the index a crawl has left, is
\* answered from the extension index: "." + E with the paths of the crawled
\* files whose extension key is E, "." + E + "?" with those whose key
\* starts with E, each path once; it is Err iff no crawled file's key
\* starts with E.
C15_ExtensionQuery ==
  [][(lastOp.op = "generate" /\ lastOp.ret = "()"
        /\ lastOp'.op = "search" /\ Head(lastOp'.key) = ".") =>
       LET exact == ~ends_with(lastOp'.key, "?")
           E == Tail(QueryKey(lastOp'.key))
           files == FilesKeyed(tree, lastOp.key[1], E, exact)
       IN /\ lastOp'.res.ok <=> FilesKeyed(tree, lastOp.key[1], E, FALSE) # {}
          /\ lastOp'.res.ok =>
               \A v \in PathValues :
                 Count(lastOp'.res.vals, v) =
                   Cardinality({f \in files : path_of(f.dir, f.name) = v})]_vars

\* C15 witness: after a crawl of "a.a" and ".a" the query ".a" has returned
\* the paths of both
C15_Witness ==
  /\ lastOp.op = "search" /\ lastOp.key = <<".", "a">> /\ lastOp.ret = "Ok"
  /\ Found(tree) = {[dir |-> "r/", name |-> <<"a", ".", "a">>],
                    [dir |-> "r/d/", name |-> <<".", "a">>]}
  /\ Len(lastOp.res.vals) = 2
  /\ \A f \in Found(tree) : Holds(index, <<".", "a">>, path_of(f.dir, f.name))

\* C16: a load_index(section) that finds and reads the shard leaves as the
\* index exactly what the shard holds, whatever was in memory before: what
\* it would leave had the memory been empty.
C16_LoadReplaces ==
  [][(lastOp'.op = "load" /\ lastOp'.hit /\ lastOp'.ret = "()") =>
       LET name == fs_name(disk, shard_name(search_part, lastOp'.key[1])) IN
       /\ index' = deserialize_from(disk.files[name]).node
       /\ index' = load_index(Node_new, search_part, disk, lastOp'.key[1]).index]_vars

\* C16 witness: with an index in memory that held entries, the shard of 'a'
\* has been loaded, and the index is that shard: the path of the file "a"
\* at its root and nothing below
C16_Witness ==
  /\ lastOp.op = "load" /\ lastOp.key = <<"a">> /\ lastOp.hit /\ lastOp.prior
  /\ lastOp.ret = "()"
  /\ index = [children |-> NoChildren, paths |-> <<path_of("r/", <<"a">>)>>]

\* bucket c of an index: the subtree under its first-level character c,
\* empty when there is none
Bucket(node, c) == IF c \in DOMAIN groups(node) THEN groups(node)[c] ELSE Node_new

\* C18 as stated: after a rebuild, the generate_index and the save_index
\* that follows it, load_index(c) yields for every c bucket c of that
\* build, empty when the build has no such bucket.
C18_LoadsLatestBuild ==
  [][(lastOp.op = "generate" /\ lastOp.ret = "()" /\ lastOp'.op = "save") =>
       \A c \in CycleBuckets : LoadedNext(c) = Bucket(index, c)]_vars

\* C17: delete(K) changes nothing but K. Every other key has the same
\* values after the call as before it, and a key that held values is still
\* there, whether it extends K or is a prefix of K; when K is no path of
\* the trie, the trie is the same after the call. (The keys looked at are
\* the paths of the trie before and after the call: any other key has no
\* node, and so no values, in either.)
C17_DeleteFrame ==
  [][lastOp'.op = "delete" =>
       /\ \A K2 \in (NodePaths(index) \cup NodePaths(index')) \ {lastOp'.key} :
            /\ Lookup(index', K2).paths = Lookup(index, K2).paths
            /\ Lookup(index, K2).paths # <<>> => get(index', K2).some
       /\ ~get(index, lastOp'.key).some => index' = index]_vars

\* C17 witness: "a" has been deleted from a trie that holds "aa"; the node
\* of "a" is there without values, and "aa" has its value
C17_Witness ==
  /\ lastOp.op = "delete" /\ lastOp.key = <<"a">> /\ lastOp.hit
  /\ lastOp.ret = "()"
  /\ Lookup(index, <<"a">>) = [some |-> TRUE, paths |-> <<>>]
  /\ Lookup(index, <<"a", "a">>).paths # <<>>

\* C19 as stated: delete(K) returns, without a panic, for every key K,
\* present or absent, also one with a character of more than one byte.
C19_DeleteNeverPanics ==
  lastOp.op = "delete" => (lastOp.ret = "()" /\ ~panicked)

\* whether the thread is in a crawl-and-save cycle: in generate_index or
\* in save_index
InCycle(w) == worker[w].pc \in {"generate", "save"}

\* C20 as stated: the on-demand and the periodic rebuild thread are never
\* both in generate_index or save_index for the same root directory.
C20_OneCyclePerScope ==
  ~(/\ InCycle("on_demand") /\ InCycle("periodic")
    /\ worker.on_demand.root = worker.periodic.root)

====
